---- MODULE Spec2Model ----
(***************************************************************************)
(* A model of FiniteMDP (src/src/FiniteMDP.py): tabular dynamic            *)
(* programming and Q-learning over a gym environment with discrete spaces. *)
(*                                                                         *)
(* Numbers.  The program computes in float64.  Values and rewards are      *)
(* modelled as fixed-point integers counted in units of 1/Unit, and        *)
(* probabilities, discount factors and step sizes as exact rationals       *)
(* <<numerator, denominator>>; a product of a rational and a value is      *)
(* rounded down to the grid (Mul), where the program rounds to the nearest *)
(* float64.  Sums and differences of grid values are exact.                *)
(***************************************************************************)
EXTENDS Integers, Sequences, FiniteSets, TLC

VARIABLES
    \* the environment's tables and the inputs of a call
    nextStateProbability, rewardsTable, discountGamma, policy,
    \* compute_state_values / compute_optimal_state_values
    call, in_place, state_values, new_state_values, iteration, pcV,
    \* compute_optimal_action_values
    action_values, new_action_values, iterationQ, pcQ,
    \* history: the table before the last sweep, the sweeps performed
    prev_state_values, prev_action_values, sweeps, sweepsQ,
    \* convert_action_values_into_policy
    pcP,
    \* the environment at run time: its state, and the reset and step calls
    \* it has received since the call under study began
    envState, nResets, nSteps,
    \* run_MDP_for_given_policy: its locals, and the caller's matrix as it
    \* was when the call began (callerPolicy)
    callerPolicy, maxNumIterations, rolloutState, it, totalReward, gameOver,
    myweights, action, pcR,
    \* execute_q_learning / q_learning / chooseAction
    explorationProbEpsilon, stateActionValues, run, i, numIterations,
    currentState, currentAction, reportedReward, rewards, rewardsQLearning,
    pcQL,
    \* __init__: the environment handed in, and the fields set
    action_space, observation_space, shapeP, shapeR, selfS, selfA, pcC

envVars == <<nextStateProbability, rewardsTable, discountGamma, policy>>
dpVars == <<call, in_place, state_values, new_state_values, iteration, pcV,
            action_values, new_action_values, iterationQ, pcQ,
            prev_state_values, prev_action_values, sweeps, sweepsQ>>
runtimeVars == <<envState, nResets, nSteps>>
rolloutVars == <<callerPolicy, maxNumIterations, rolloutState, it, totalReward,
                 gameOver, myweights, action, pcR>>
qlVars == <<explorationProbEpsilon, stateActionValues, run, i, numIterations,
            currentState, currentAction, reportedReward, rewards,
            rewardsQLearning, pcQL>>
ctorVars == <<action_space, observation_space, shapeP, shapeR, selfS, selfA, pcC>>
vars == <<envVars, dpVars, pcP, runtimeVars, rolloutVars, qlVars, ctorVars>>

----------------------------------------------------------------------------
\* Sizes of the discrete spaces: self.S and self.A.
NS == 2
NA == 2
States == 0 .. (NS - 1)
Actions == 0 .. (NA - 1)

\* 1.0 on the fixed-point grid.
Unit == 10^6
\* The convergence threshold 1e-4 of the three dynamic-programming loops.
Tolerance == Unit \div 10000

Abs(x) == IF x < 0 THEN -x ELSE x

\* rational q times grid value x, rounded down to the grid
Mul(q, x) == (q[1] * x) \div q[2]

RatMul(q, r) == <<q[1] * r[1], q[2] * r[2]>>

RECURSIVE SumTo(_, _)
\* f[0] + ... + f[n]
SumTo(f, n) == IF n < 0 THEN 0 ELSE f[n] + SumTo(f, n - 1)

RECURSIVE MaxTo(_, _)
\* the largest of f[0], ..., f[n] (n >= 0)
MaxTo(f, n) == IF n = 0 THEN f[0]
               ELSE LET m == MaxTo(f, n - 1) IN IF f[n] > m THEN f[n] ELSE m

\* np.max of a row of action values
RowMax(row) == MaxTo(row, NA - 1)

\* np.sum(np.abs(new - old)) over a vector of state values
ImprovementV(new, old) == SumTo([s \in States |-> Abs(new[s] - old[s])], NS - 1)

\* np.sum(np.abs(new - old)) over a table of action values
ImprovementQ(new, old) ==
    SumTo([s \in States |->
              SumTo([a \in Actions |-> Abs(new[s][a] - old[s][a])], NA - 1)],
          NS - 1)

ZeroV == [s \in States |-> 0]
ZeroQ == [s \in States |-> [a \in Actions |-> 0]]

----------------------------------------------------------------------------
\* A policy row is a vector of numerators over one denominator.
PolicyEntry(pol, s, a) == <<pol[s].num[a], pol[s].den>>

\* getEquiprobableRandomPolicy: every entry 1/A
getEquiprobableRandomPolicy ==
    [s \in States |-> [num |-> [a \in Actions |-> 1], den |-> NA]]

\* the policy that always takes action b
DeterministicPolicy(b) ==
    [s \in States |-> [num |-> [a \in Actions |-> IF a = b THEN 1 ELSE 0],
                       den |-> 1]]

\* One state's new value in compute_state_values: the sum over a and nexts of
\* policy[s,a] * p * (r + discountGamma * src[nexts]), skipping policy[s,a] = 0.
PolicyValue(s, src) ==
    SumTo([a \in Actions |->
             IF policy[s].num[a] = 0 THEN 0
             ELSE SumTo([nexts \in States |->
                           Mul(RatMul(PolicyEntry(policy, s, a),
                                      nextStateProbability[s][a][nexts]),
                               rewardsTable[s][a][nexts]
                                 + Mul(discountGamma, src[nexts]))],
                        NS - 1)],
          NA - 1)

RECURSIVE SweepStateValues(_, _, _, _)
\* The for-loop over s of compute_state_values from state s on: src is the
\* vector being written when in_place, the previous sweep's copy otherwise.
SweepStateValues(new, old, s, inPlace) ==
    IF s = NS THEN new
    ELSE SweepStateValues(
             [new EXCEPT ![s] = PolicyValue(s, IF inPlace THEN new ELSE old)],
             old, s + 1, inPlace)

\* The candidate of action a in state s in compute_optimal_state_values.
Candidate(s, a, values) ==
    SumTo([nexts \in States |->
             Mul(nextStateProbability[s][a][nexts],
                 rewardsTable[s][a][nexts] + Mul(discountGamma, values[nexts]))],
          NS - 1)

\* One sweep of compute_optimal_state_values: the max of the candidates.
SweepOptimalStateValues(values) ==
    [s \in States |-> MaxTo([a \in Actions |-> Candidate(s, a, values)], NA - 1)]

\* The first entry of row nexts, whatever the others hold.
BestAFirst(table, nexts) == table[nexts][0]

\* best_a of compute_optimal_action_values: the largest entry of row nexts
BestA(table, nexts) == RowMax(table[nexts])

\* One sweep of compute_optimal_action_values.
SweepOptimalActionValues(table) ==
    [s \in States |-> [a \in Actions |->
        SumTo([nexts \in States |->
                 Mul(nextStateProbability[s][a][nexts],
                     rewardsTable[s][a][nexts]
                       + Mul(discountGamma, BestA(table, nexts)))],
              NS - 1)]]

\* A stopping test ten times as lax.
ConvergedLoose(improvement) == improvement < 10 * Tolerance

\* The stopping test of the three loops.
Converged(improvement) == improvement < Tolerance

----------------------------------------------------------------------------
\* The environments and inputs the dynamic-programming calls are run on.

\* The kinds of transition an action can have: stay in s, move to the next
\* state, or either with probability 1/2 ("split0": either from state 0,
\* stay elsewhere).
Kinds == {"stay", "next", "split"}

Succ(s) == (s + 1) % NS

TransitionRow(kind, s) ==
    [nexts \in States |->
        CASE kind = "stay" -> IF nexts = s THEN <<1, 1>> ELSE <<0, 1>>
          [] kind = "next" -> IF nexts = Succ(s) THEN <<1, 1>> ELSE <<0, 1>>
          [] kind = "split0" /\ s # 0 ->
                 IF nexts = s THEN <<1, 1>> ELSE <<0, 1>>
          [] OTHER -> IF NS = 1 THEN <<1, 1>>
                      ELSE IF nexts = s \/ nexts = Succ(s) THEN <<1, 2>>
                      ELSE <<0, 1>>]

\* Rewards in whole units: one per action, plus a bonus for leaving state 0.
ActionRewards == {-1, 0, 1}
Bonuses == {0, 2}

Gammas == {<<1, 2>>, <<9, 10>>}

Tables(kindOf, rewardOf, bonus) ==
    [P |-> [s \in States |-> [a \in Actions |-> TransitionRow(kindOf[a], s)]],
     R |-> [s \in States |-> [a \in Actions |-> [nexts \in States |->
              Unit * (rewardOf[a] + IF s = 0 /\ nexts # 0 THEN bonus ELSE 0)]]]]

Calls == {"state_values", "optimal"}

\* The environment the rollout and the learning calls are run on: action 0
\* stays, or from state 0 moves on with probability 1/2; every other action
\* moves on.
DefaultTables ==
    Tables([a \in Actions |-> IF a = 0 THEN "split0" ELSE "next"],
           [a \in Actions |-> IF a = 0 THEN 1 ELSE -1], 2)

\* What the variables of an operation hold while a specification studies
\* another operation.
IdleDP ==
    /\ call = "none" /\ in_place = FALSE
    /\ state_values = ZeroV /\ new_state_values = ZeroV
    /\ iteration = 1 /\ pcV = "idle"
    /\ action_values = ZeroQ /\ new_action_values = ZeroQ
    /\ iterationQ = 1 /\ pcQ = "idle"
    /\ prev_state_values = ZeroV /\ prev_action_values = ZeroQ
    /\ sweeps = 0 /\ sweepsQ = 0

IdleRuntime == envState = 0 /\ nResets = 0 /\ nSteps = 0

IdleRollout ==
    /\ callerPolicy = getEquiprobableRandomPolicy
    /\ maxNumIterations = 0 /\ rolloutState = 0 /\ it = 0 /\ totalReward = 0
    /\ gameOver = FALSE /\ myweights = [num |-> [a \in Actions |-> 1], den |-> NA]
    /\ action = 0 /\ pcR = "idle"

IdleQL ==
    /\ explorationProbEpsilon = <<0, 1>> /\ stateActionValues = ZeroQ
    /\ run = 0 /\ i = 0 /\ numIterations = 0 /\ currentState = 0
    /\ currentAction = 0 /\ reportedReward = 0 /\ rewards = 0
    /\ rewardsQLearning = <<>> /\ pcQL = "idle"

IdleCtor ==
    /\ action_space = [discrete |-> TRUE, n |-> NA]
    /\ observation_space = [discrete |-> TRUE, n |-> NS]
    /\ shapeP = <<NS, NA, NS>> /\ shapeR = <<NS, NA, NS>>
    /\ selfS = NS /\ selfA = NA /\ pcC = "constructed"

IdleEnv ==
    /\ nextStateProbability = DefaultTables.P
    /\ rewardsTable = DefaultTables.R
    /\ discountGamma = <<9, 10>>

InitDP ==
    /\ \E kind0 \in Kinds, kindRest \in Kinds, reward0 \in ActionRewards,
          rewardRest \in ActionRewards, bonus \in Bonuses :
          LET kindOf == [a \in Actions |-> IF a = 0 THEN kind0 ELSE kindRest]
              rewardOf == [a \in Actions |-> IF a = 0 THEN reward0 ELSE rewardRest]
          IN /\ nextStateProbability = Tables(kindOf, rewardOf, bonus).P
             /\ rewardsTable = Tables(kindOf, rewardOf, bonus).R
    /\ discountGamma \in Gammas
    /\ call \in Calls
    /\ \/ /\ call = "state_values"
          /\ in_place \in BOOLEAN
          /\ policy \in {getEquiprobableRandomPolicy}
                          \cup {DeterministicPolicy(b) : b \in Actions}
       \/ /\ call = "optimal"
          /\ in_place = FALSE
          /\ policy = getEquiprobableRandomPolicy
    /\ new_state_values = ZeroV
    /\ state_values = ZeroV
    /\ iteration = 1
    /\ pcV = "sweeping"
    /\ new_action_values = ZeroQ
    /\ action_values = ZeroQ
    /\ iterationQ = 1
    /\ pcQ = IF call = "optimal" THEN "sweeping" ELSE "idle"
    /\ prev_state_values = ZeroV
    /\ prev_action_values = ZeroQ
    /\ sweeps = 0
    /\ sweepsQ = 0
    /\ pcP = "idle"
    /\ IdleRuntime /\ IdleRollout /\ IdleQL /\ IdleCtor

\* One pass of the while loop of compute_state_values.
ComputeStateValuesSweep ==
    /\ call = "state_values"
    /\ pcV = "sweeping"
    /\ LET new == SweepStateValues(new_state_values, state_values, 0, in_place)
           improvement == ImprovementV(new, state_values)
       IN /\ new_state_values' = new
          /\ state_values' = new
          /\ IF Converged(improvement)
             THEN pcV' = "returned" /\ iteration' = iteration
             ELSE pcV' = pcV /\ iteration' = iteration + 1
    /\ prev_state_values' = state_values
    /\ sweeps' = sweeps + 1
    /\ UNCHANGED <<envVars, pcP, runtimeVars, rolloutVars, qlVars, ctorVars,
                   call, in_place, action_values, new_action_values,
                   iterationQ, pcQ, prev_action_values, sweepsQ>>

\* One pass of the while loop of compute_optimal_state_values.  The two
\* optimal-value calls read the same immutable tables and share nothing else,
\* so the order of their sweeps cannot be observed; they are stepped in turn,
\* the state-value call first, to set their k-th iterates side by side.
ComputeOptimalStateValuesSweep ==
    /\ call = "optimal"
    /\ pcV = "sweeping"
    /\ sweeps <= sweepsQ
    /\ LET new == SweepOptimalStateValues(state_values)
           improvement == ImprovementV(new, state_values)
       IN /\ new_state_values' = new
          /\ state_values' = new
          /\ IF Converged(improvement)
             THEN pcV' = "returned" /\ iteration' = iteration
             ELSE pcV' = pcV /\ iteration' = iteration + 1
    /\ prev_state_values' = state_values
    /\ sweeps' = sweeps + 1
    /\ UNCHANGED <<envVars, pcP, runtimeVars, rolloutVars, qlVars, ctorVars,
                   call, in_place, action_values, new_action_values,
                   iterationQ, pcQ, prev_action_values, sweepsQ>>

\* One pass of the while loop of compute_optimal_action_values.
ComputeOptimalActionValuesSweep ==
    /\ call = "optimal"
    /\ pcQ = "sweeping"
    /\ sweepsQ < sweeps \/ pcV = "returned"
    /\ LET new == SweepOptimalActionValues(action_values)
           improvement == ImprovementQ(new, action_values)
       IN /\ new_action_values' = new
          /\ action_values' = new
          /\ IF Converged(improvement)
             THEN pcQ' = "returned" /\ iterationQ' = iterationQ
             ELSE pcQ' = pcQ /\ iterationQ' = iterationQ + 1
    /\ prev_action_values' = action_values
    /\ sweepsQ' = sweepsQ + 1
    /\ UNCHANGED <<envVars, pcP, runtimeVars, rolloutVars, qlVars, ctorVars,
                   call, in_place, state_values, new_state_values,
                   iteration, pcV, prev_state_values, sweeps>>

NextDP ==
    \/ ComputeStateValuesSweep
    \/ ComputeOptimalStateValuesSweep
    \/ ComputeOptimalActionValuesSweep

SpecDP == InitDP /\ [][NextDP]_vars

----------------------------------------------------------------------------
\* convert_action_values_into_policy

\* np.where(action_values[s] == maxPerState)
MaxIndices(row) == {a \in Actions : row[a] = RowMax(row)}

\* One-hot on the lowest maximizer (what an argmax would give).
ConvertRowFirstMax(row) ==
    [num |-> [a \in Actions |->
                IF a \in MaxIndices(row) /\ \A b \in MaxIndices(row) : a <= b
                THEN 1 ELSE 0],
     den |-> 1]

\* Row s of the policy: 1.0 / len(maxIndices[0]) at the max indices, the
\* zero of np.zeros elsewhere.
ConvertRow(row) ==
    [num |-> [a \in Actions |-> IF a \in MaxIndices(row) THEN 1 ELSE 0],
     den |-> Cardinality(MaxIndices(row))]

\* The action values a caller may hand in, in whole units.
QEntries == {-1, 0, 1}

InitPolicy ==
    /\ IdleEnv
    /\ \E q \in [States -> [Actions -> QEntries]] :
          action_values = [s \in States |-> [a \in Actions |-> Unit * q[s][a]]]
    /\ policy = [s \in States |-> [num |-> [a \in Actions |-> 0], den |-> 1]]
    /\ pcP = "called"
    /\ call = "none" /\ in_place = FALSE
    /\ state_values = ZeroV /\ new_state_values = ZeroV
    /\ iteration = 1 /\ pcV = "idle"
    /\ new_action_values = ZeroQ /\ iterationQ = 1 /\ pcQ = "idle"
    /\ prev_state_values = ZeroV /\ prev_action_values = ZeroQ
    /\ sweeps = 0 /\ sweepsQ = 0
    /\ IdleRuntime /\ IdleRollout /\ IdleQL /\ IdleCtor

convert_action_values_into_policy ==
    /\ pcP = "called"
    /\ policy' = [s \in States |-> ConvertRow(action_values[s])]
    /\ pcP' = "returned"
    /\ UNCHANGED <<nextStateProbability, rewardsTable, discountGamma, dpVars,
                   runtimeVars, rolloutVars, qlVars, ctorVars>>

NextPolicy == convert_action_values_into_policy

SpecPolicy == InitPolicy /\ [][NextPolicy]_vars

----------------------------------------------------------------------------
\* __init__

\* Only the action space is looked at.
ActionSpaceDiscrete(aSpace, oSpace) == aSpace.discrete

\* The two assertions: isinstance(..., spaces.Discrete) of both spaces.
SpacesDiscrete(aSpace, oSpace) == aSpace.discrete /\ oSpace.discrete

\* The shapes a table of the environment may have.
Shapes == (1 .. NS) \X (1 .. NA) \X (1 .. NS)

InitCtor ==
    /\ IdleEnv
    /\ policy = getEquiprobableRandomPolicy
    /\ IdleDP
    /\ pcP = "idle"
    /\ envState \in States /\ nResets = 0 /\ nSteps = 0
    /\ IdleRollout /\ IdleQL
    /\ action_space \in [discrete : BOOLEAN, n : 1 .. NA]
    /\ observation_space \in [discrete : BOOLEAN, n : 1 .. NS]
    /\ shapeP \in Shapes
    /\ shapeR \in Shapes
    /\ selfS = 0 /\ selfA = 0
    /\ pcC = "new"

\* An assertion fails: no object is made.
ConstructFails ==
    /\ pcC = "new"
    /\ ~SpacesDiscrete(action_space, observation_space)
    /\ pcC' = "AssertionError"
    /\ UNCHANGED <<envVars, dpVars, pcP, runtimeVars, rolloutVars, qlVars,
                   action_space, observation_space, shapeP, shapeR, selfS, selfA>>

\* Both assertions pass: S and A are read off the spaces and the
\* environment is reset.
Construct ==
    /\ pcC = "new"
    /\ SpacesDiscrete(action_space, observation_space)
    /\ selfS' = observation_space.n
    /\ selfA' = action_space.n
    /\ envState' = 0
    /\ nResets' = nResets + 1
    /\ pcC' = "constructed"
    /\ UNCHANGED <<envVars, dpVars, pcP, nSteps, rolloutVars, qlVars,
                   action_space, observation_space, shapeP, shapeR>>

NextCtor == Construct \/ ConstructFails

SpecCtor == InitCtor /\ [][NextCtor]_vars

----------------------------------------------------------------------------
\* The environment at run time (the collaborator behind reset, get_state
\* and step).

\* reset(): back to the defined initial state.
ResetState == 0

\* The states step(a) may land in from st: those of positive probability.
EnvNextStates(st, a) ==
    {nexts \in States : nextStateProbability[st][a][nexts][1] > 0}

\* The rewards a step call may report.
ReportedRewards == {0, Unit}

----------------------------------------------------------------------------
\* run_MDP_for_given_policy

RECURSIVE MinTo(_, _)
\* the smallest of f[0], ..., f[n] (n >= 0)
MinTo(f, n) == IF n = 0 THEN f[0]
               ELSE LET m == MinTo(f, n - 1) IN IF f[n] < m THEN f[n] ELSE m

\* A row of float64 weights is a vector of numerators over one positive
\* denominator; den = 0 stands for the row of NaN that 0.0 / 0.0 leaves.
NaNRow == [num |-> [a \in Actions |-> 0], den |-> 0]
IsNaN(w) == w.den = 0

\* np.ones(myweights.shape)
Ones == [num |-> [a \in Actions |-> 1], den |-> 1]

\* np.sum(myweights) and np.min(myweights), as numerators over w.den
RowSum(w) == SumTo(w.num, NA - 1)
RowMin(w) == MinTo(w.num, NA - 1)

\* (-minWeight) + 1e-30, as a numerator over the row's denominator.  In
\* float64 x + 1e-30 = x for every x >= 1e-13: the weights of the model are
\* ratios of small integers, so the term 1e-30 is always rounded away.
ShiftAmount(minNum) == -minNum

\* The weights handed to choices() for a row of the policy, and whether
\* they are still the row itself (the view np.squeeze(policy[s]), written
\* in place by += and /=) or the fresh array of np.ones.
Weights(row) ==
    IF IsNaN(row)
    THEN \* every comparison with NaN is false; NaN / NaN is NaN
         [w |-> NaNRow, view |-> TRUE]
    ELSE LET zeroSum == RowSum(row) = 0
             w1 == IF zeroSum THEN Ones ELSE row
             minNum == RowMin(w1)
             w2 == IF minNum < 0
                   THEN [w1 EXCEPT !.num = [a \in Actions |->
                                              w1.num[a] + ShiftAmount(minNum)]]
                   ELSE w1
             sumWeights == RowSum(w2)
             w3 == IF sumWeights = 0 THEN NaNRow
                   ELSE [num |-> w2.num, den |-> sumWeights]
         IN [w |-> w3, view |-> ~zeroSum]

\* The loop goes on after a step that reported the end of the episode.
IgnoreGameOver(over) == FALSE

\* if gameOver == True: break
BreakOnGameOver(over) == over = TRUE

\* The weights a caller may put in a row: any weights in the row of the
\* state the rollout starts in, one weight throughout in the other rows.
WeightEntries == {-1, 0, 1, 2}
PolicyRows == [num : [Actions -> WeightEntries], den : {1}]
ConstantRows == {[num |-> [a \in Actions |-> w], den |-> 1] : w \in WeightEntries}

MaxIterations == 3

InitRollout ==
    /\ IdleEnv
    /\ \E row0 \in PolicyRows, rowRest \in ConstantRows :
          policy = [s \in States |-> IF s = 0 THEN row0 ELSE rowRest]
    /\ callerPolicy = policy
    /\ IdleDP
    /\ pcP = "idle"
    /\ envState \in States /\ nResets = 0 /\ nSteps = 0
    /\ maxNumIterations \in 0 .. MaxIterations
    /\ rolloutState = 0 /\ it = 0 /\ totalReward = 0 /\ gameOver = FALSE
    /\ myweights = Ones /\ action = 0
    /\ pcR = "called"
    /\ IdleQL /\ IdleCtor

\* self.environment.reset(); s = self.environment.get_state(); totalReward = 0
RolloutReset ==
    /\ pcR = "called"
    /\ envState' = ResetState
    /\ nResets' = nResets + 1
    /\ rolloutState' = ResetState
    /\ totalReward' = 0
    /\ it' = 0
    /\ pcR' = "loop"
    /\ UNCHANGED <<envVars, dpVars, pcP, nSteps, callerPolicy, maxNumIterations,
                   gameOver, myweights, action, qlVars, ctorVars>>

\* One pass of the for loop: the weights, the sample, the step.
RolloutStep ==
    /\ pcR = "loop"
    /\ it < maxNumIterations
    /\ LET got == Weights(policy[rolloutState])
       IN /\ myweights' = got.w
          /\ policy' = IF got.view THEN [policy EXCEPT ![rolloutState] = got.w]
                       ELSE policy
          /\ IF IsNaN(got.w)
             THEN \* choices() refuses a total that is not finite (ValueError);
                  \* before Python 3.9 its bisection ends on the last action
                  action' \in {NA - 1}
             ELSE action' \in {a \in Actions : got.w.num[a] > 0}
    /\ envState' \in EnvNextStates(envState, action')
    /\ nSteps' = nSteps + 1
    /\ \E reward \in ReportedRewards : totalReward' = totalReward + reward
    /\ gameOver' \in BOOLEAN
    /\ rolloutState' = envState'
    /\ it' = it + 1
    /\ pcR' = IF BreakOnGameOver(gameOver') THEN "done" ELSE "loop"
    /\ UNCHANGED <<nextStateProbability, rewardsTable, discountGamma, dpVars, pcP,
                   nResets, callerPolicy, maxNumIterations, qlVars, ctorVars>>

\* choices() raises on the NaN weights: the call ends with the ValueError.
RolloutRaises ==
    /\ pcR = "loop"
    /\ it < maxNumIterations
    /\ LET got == Weights(policy[rolloutState])
       IN /\ IsNaN(got.w)
          /\ myweights' = got.w
          /\ policy' = IF got.view THEN [policy EXCEPT ![rolloutState] = got.w]
                       ELSE policy
    /\ pcR' = "ValueError"
    /\ UNCHANGED <<nextStateProbability, rewardsTable, discountGamma, dpVars, pcP,
                   runtimeVars, callerPolicy, maxNumIterations, rolloutState, it,
                   totalReward, gameOver, action, qlVars, ctorVars>>

\* The range is exhausted: the loop ends.
RolloutReturn ==
    /\ pcR = "loop"
    /\ it = maxNumIterations
    /\ pcR' = "done"
    /\ UNCHANGED <<envVars, dpVars, pcP, runtimeVars, callerPolicy,
                   maxNumIterations, rolloutState, it, totalReward, gameOver,
                   myweights, action, qlVars, ctorVars>>

NextRollout == RolloutReset \/ RolloutStep \/ RolloutRaises \/ RolloutReturn

SpecRollout == InitRollout /\ [][NextRollout]_vars

----------------------------------------------------------------------------
\* chooseAction, q_learning, execute_q_learning

\* stepSizeAlpha = 0.1 and the discountGamma = 0.9 that q_learning defaults
\* to (execute_q_learning passes none)
stepSizeAlpha == <<1, 10>>
QLearningGamma == <<9, 10>>

\* The exploration probabilities a caller may pass: 0, the default 0.01, 1.
Epsilons == {<<0, 1>>, <<1, 100>>, <<1, 1>>}

\* The lowest index of the row's maximum only.
FirstGreedyAction(values_) ==
    {a \in Actions : /\ values_[a] = RowMax(values_)
                     /\ \A b \in Actions : values_[b] = RowMax(values_) => a <= b}

\* [action_ for action_, value_ in enumerate(values_) if value_ == np.max(values_)]
GreedyActions(values_) == {a \in Actions : values_[a] = RowMax(values_)}

\* The actions chooseAction can return: np.random.binomial(1, epsilon) is 1
\* with probability epsilon, and then any action is drawn; otherwise one of
\* the greedy actions is drawn.
ChooseActionOutcomes(state, table, epsilon) ==
    (IF epsilon[1] > 0 THEN Actions ELSE {})
      \cup (IF epsilon[1] < epsilon[2] THEN GreedyActions(table[state]) ELSE {})

\* The reward the step call reported is what is learnt from.
StepReward(cs, ca, ns, reported) == reported

\* reward = self.environment.rewardsTable[currentState, currentAction, newState]
RealizedReward(cs, ca, ns, reported) == rewardsTable[cs][ca][ns]

\* The Q-learning update of entry [cs, ca].
QUpdate(table, cs, ca, ns, reward) ==
    [table EXCEPT ![cs][ca] =
        @ + Mul(stepSizeAlpha,
                reward + Mul(discountGamma, RowMax(table[ns])) - @)]

\* The arguments of execute_q_learning.
NumRuns == 2
MaxOuterIterations == 1
maxNumIterationsQLearning == 2

InitQL ==
    /\ nextStateProbability = DefaultTables.P
    /\ rewardsTable = DefaultTables.R
    /\ discountGamma = QLearningGamma
    /\ policy = getEquiprobableRandomPolicy
    /\ IdleDP
    /\ pcP = "idle"
    \* __init__ has reset the environment
    /\ envState = ResetState /\ nResets = 0 /\ nSteps = 0
    /\ IdleRollout /\ IdleCtor
    /\ explorationProbEpsilon \in Epsilons
    /\ stateActionValues = ZeroQ
    /\ run = 0 /\ i = 0 /\ numIterations = 0
    /\ currentState = 0 /\ currentAction = 0 /\ reportedReward = 0
    /\ rewards = 0
    \* rewardsQLearning = np.zeros(maxNumIterations)
    /\ rewardsQLearning = [k \in 0 .. (MaxOuterIterations - 1) |-> 0]
    /\ pcQL = "runs"

\* for run in range(num_runs): stateActionValues = np.zeros((self.S, self.A))
StartRun ==
    /\ pcQL = "runs"
    /\ run < NumRuns
    /\ stateActionValues' = ZeroQ
    /\ i' = 0
    /\ pcQL' = "outer"
    /\ UNCHANGED <<envVars, dpVars, pcP, runtimeVars, rolloutVars, ctorVars,
                   explorationProbEpsilon, run, numIterations, currentState,
                   currentAction, reportedReward, rewards, rewardsQLearning>>

\* for i in range(maxNumIterations): q_learning is entered;
\* currentState = self.environment.get_state(); rewards = 0.0
EnterQLearning ==
    /\ pcQL = "outer"
    /\ i < MaxOuterIterations
    /\ currentState' = envState
    /\ rewards' = 0
    /\ numIterations' = 0
    /\ pcQL' = "inner"
    /\ UNCHANGED <<envVars, dpVars, pcP, runtimeVars, rolloutVars, ctorVars,
                   explorationProbEpsilon, stateActionValues, run, i,
                   currentAction, reportedReward, rewardsQLearning>>

\* One pass of the for loop of q_learning.
QLearningStep ==
    /\ pcQL = "inner"
    /\ numIterations < maxNumIterationsQLearning
    /\ currentAction' \in ChooseActionOutcomes(currentState, stateActionValues,
                                               explorationProbEpsilon)
    /\ envState' \in EnvNextStates(envState, currentAction')
    /\ nSteps' = nSteps + 1
    /\ reportedReward' \in ReportedRewards
    /\ LET newState == envState'
           reward == RealizedReward(currentState, currentAction', newState,
                                    reportedReward')
       IN /\ rewards' = rewards + reward
          /\ stateActionValues' = QUpdate(stateActionValues, currentState,
                                          currentAction', newState, reward)
          /\ currentState' = newState
    /\ numIterations' = numIterations + 1
    /\ UNCHANGED <<envVars, dpVars, pcP, nResets, rolloutVars, ctorVars,
                   explorationProbEpsilon, run, i, rewardsQLearning, pcQL>>

\* return rewards / maxNumIterationsQLearning; rewardsQLearning[i] += reward
LeaveQLearning ==
    /\ pcQL = "inner"
    /\ numIterations = maxNumIterationsQLearning
    /\ rewardsQLearning' =
          [rewardsQLearning EXCEPT ![i] = @ + (rewards \div maxNumIterationsQLearning)]
    /\ i' = i + 1
    /\ pcQL' = "outer"
    /\ UNCHANGED <<envVars, dpVars, pcP, runtimeVars, rolloutVars, ctorVars,
                   explorationProbEpsilon, stateActionValues, run, numIterations,
                   currentState, currentAction, reportedReward, rewards>>

\* The inner range is exhausted: the next run.
EndRun ==
    /\ pcQL = "outer"
    /\ i = MaxOuterIterations
    /\ run' = run + 1
    /\ pcQL' = "runs"
    /\ UNCHANGED <<envVars, dpVars, pcP, runtimeVars, rolloutVars, ctorVars,
                   explorationProbEpsilon, stateActionValues, i, numIterations,
                   currentState, currentAction, reportedReward, rewards,
                   rewardsQLearning>>

\* rewardsQLearning /= num_runs; return stateActionValues, rewardsQLearning
ExecuteReturn ==
    /\ pcQL = "runs"
    /\ run = NumRuns
    /\ rewardsQLearning' =
          [k \in DOMAIN rewardsQLearning |-> rewardsQLearning[k] \div NumRuns]
    /\ pcQL' = "returned"
    /\ UNCHANGED <<envVars, dpVars, pcP, runtimeVars, rolloutVars, ctorVars,
                   explorationProbEpsilon, stateActionValues, run, i,
                   numIterations, currentState, currentAction, reportedReward,
                   rewards>>

NextQL ==
    \/ StartRun
    \/ EnterQLearning
    \/ QLearningStep
    \/ LeaveQLearning
    \/ EndRun
    \/ ExecuteReturn

SpecQL == InitQL /\ [][NextQL]_vars

----------------------------------------------------------------------------
\* Properties.

\* the actions of the largest value in a row, said without RowMax
Maximizers(row) == {a \in Actions : \A b \in Actions : row[b] <= row[a]}

RowMaxima == [s \in States |-> CHOOSE m \in {action_values[s][a] : a \in Actions} :
                                  \A a \in Actions : action_values[s][a] <= m]

BothReturned == call = "optimal" /\ pcV = "returned" /\ pcQ = "returned"

\* C1 as stated: once compute_optimal_state_values and
\* compute_optimal_action_values have both returned, in every state the row
\* maximum of Q* is within the tolerance 1e-4 of V*.
C1_WithinTolerance ==
    BothReturned =>
        \A s \in States : Abs(RowMaxima[s] - state_values[s]) < Tolerance

\* C1, amended: whenever the two loops have performed the same number of
\* sweeps the row maxima of Q equal V exactly; the action-value loop returns
\* after at least as many sweeps as the state-value loop; and the returned
\* tables differ, in every state, by less than 1e-4 * gamma / (1 - gamma).
C1_SweepwiseAgreement ==
    /\ (call = "optimal" /\ sweeps = sweepsQ) => RowMaxima = state_values
    /\ BothReturned =>
          /\ iterationQ >= iteration
          /\ \A s \in States :
                Abs(RowMaxima[s] - state_values[s])
                    * (discountGamma[2] - discountGamma[1])
                  < Tolerance * discountGamma[1]

\* Both loops have returned, the action-value loop after more sweeps, and
\* some row maximum is 1e-4 or more away from the state value.
C1_ReturnedApart ==
    /\ BothReturned
    /\ iterationQ > iteration
    /\ \E s \in States : Abs(RowMaxima[s] - state_values[s]) >= Tolerance

\* C10: each dynamic-programming loop starts from an all-zero table with
\* iteration = 1; after every sweep the table held is the output of that
\* sweep; the loop has returned exactly when the last sweep's sum of
\* absolute differences from the table before it is below 1e-4, so it stops
\* after the first such sweep; and the iteration count returned is the
\* number of sweeps performed, at least 1.
C10_SweepUntilConverged ==
    /\ pcV # "idle" =>
          /\ sweeps = 0 =>
                /\ state_values = ZeroV /\ new_state_values = ZeroV
                /\ iteration = 1 /\ pcV = "sweeping"
          /\ sweeps > 0 =>
                /\ state_values = new_state_values
                /\ state_values =
                      IF call = "state_values"
                      THEN IF in_place
                           THEN SweepStateValues(prev_state_values,
                                                 prev_state_values, 0, TRUE)
                           ELSE [s \in States |->
                                    PolicyValue(s, prev_state_values)]
                      ELSE SweepOptimalStateValues(prev_state_values)
          /\ pcV = "returned" <=>
                /\ sweeps > 0
                /\ ImprovementV(state_values, prev_state_values) < Tolerance
          /\ iteration = IF pcV = "returned" THEN sweeps ELSE sweeps + 1
    /\ pcQ # "idle" =>
          /\ sweepsQ = 0 =>
                /\ action_values = ZeroQ /\ new_action_values = ZeroQ
                /\ iterationQ = 1 /\ pcQ = "sweeping"
          /\ sweepsQ > 0 =>
                /\ action_values = new_action_values
                /\ action_values = SweepOptimalActionValues(prev_action_values)
          /\ pcQ = "returned" <=>
                /\ sweepsQ > 0
                /\ ImprovementQ(action_values, prev_action_values) < Tolerance
          /\ iterationQ = IF pcQ = "returned" THEN sweepsQ ELSE sweepsQ + 1

\* An in-place policy evaluation has returned after more than one sweep.
C10_InPlaceReturned ==
    /\ call = "state_values" /\ in_place
    /\ pcV = "returned" /\ sweeps > 1 /\ iteration = sweeps
    /\ state_values # ZeroV

\* the sum of a row of a policy, as a numerator over the row's denominator
PolicyRowSum(row) == SumTo(row.num, NA - 1)

\* C2: in the policy convert_action_values_into_policy returns, every
\* action attaining the maximum of its row of action values has probability
\* 1/k, k the number of such actions, every other action has probability 0,
\* and the row sums to 1; with one maximizer the row is one-hot.
C2_UniformOverMaximizers ==
    pcP = "returned" =>
        \A s \in States :
            LET best == Maximizers(action_values[s])
                k == Cardinality(best)
                row == policy[s]
            IN /\ row.den > 0
               /\ \A a \in best : row.num[a] * k = row.den
               /\ \A a \in Actions \ best : row.num[a] = 0
               /\ PolicyRowSum(row) = row.den
               /\ k = 1 => \A a \in best : row.num[a] = row.den

\* A policy has been returned with a tied row and a one-hot row.
C2_TiedAndOneHotRows ==
    /\ pcP = "returned"
    /\ \E s \in States : Cardinality(Maximizers(action_values[s])) > 1
    /\ \E s \in States : /\ Cardinality(Maximizers(action_values[s])) = 1
                         /\ \E a \in Actions : policy[s].num[a] = policy[s].den

QLearningStepTaken == pcQL = "inner" /\ numIterations' = numIterations + 1

\* C3: with exploration probability 0 chooseAction returns only actions of
\* the largest value in the current state's row, and can return every one
\* of them; with exploration probability 1 it can return every action.
C3_EpsilonGreedy ==
    /\ [](pcQL = "inner" =>
            LET outcomes == ChooseActionOutcomes(currentState, stateActionValues,
                                                 explorationProbEpsilon)
            IN /\ explorationProbEpsilon = <<0, 1>> =>
                     outcomes = Maximizers(stateActionValues[currentState])
               /\ explorationProbEpsilon = <<1, 1>> => outcomes = Actions)
    /\ [][(QLearningStepTaken /\ explorationProbEpsilon = <<0, 1>>) =>
             currentAction' \in Maximizers(stateActionValues[currentState])]_vars

\* With exploration probability 0, an action is about to be chosen in a
\* state whose row has learnt values and a single maximizer.
C3_GreedyChoicePending ==
    /\ pcQL = "inner" /\ numIterations < maxNumIterationsQLearning
    /\ explorationProbEpsilon = <<0, 1>>
    /\ stateActionValues[currentState] # [a \in Actions |-> 0]
    /\ Cardinality(Maximizers(stateActionValues[currentState])) = 1

\* C4: a step of q_learning from s with action a landing in s_next adds
\* alpha * (r + gamma * max Q[s_next] - Q[s,a]) to Q[s,a], r being
\* rewardsTable[s,a,s_next], leaves every other entry as it was, and adds r
\* to the reward total, whatever reward the step call reported.
C4_UpdateFromRewardsTable ==
    [][QLearningStepTaken =>
         LET s == currentState
             a == currentAction'
             s_next == currentState'
             r == rewardsTable[s][a][s_next]
             delta == Mul(stepSizeAlpha,
                          r + Mul(discountGamma,
                                  MaxTo(stateActionValues[s_next], NA - 1))
                            - stateActionValues[s][a])
         IN /\ \A s2 \in States, a2 \in Actions :
                  stateActionValues'[s2][a2] =
                      stateActionValues[s2][a2]
                        + IF s2 = s /\ a2 = a THEN delta ELSE 0
            /\ rewards' = rewards + r]_vars

\* A first step was taken whose realized reward, 3.0, no step call reports.
C4_StepWithOtherReportedReward ==
    /\ pcQL = "inner" /\ numIterations = 1
    /\ rewards = 3 * Unit
    /\ reportedReward # rewards
    /\ stateActionValues # ZeroQ

RolloutOver == pcR \in {"done", "ValueError"}

\* The passes the loop may still make, plus the steps before and after it.
RolloutVariant ==
    IF RolloutOver THEN 0
    ELSE (maxNumIterations - it) + (IF pcR = "called" THEN 2 ELSE 1)

\* C5: run_MDP_for_given_policy resets the environment once, calls step at
\* most maxNumIterations times, takes no step after one that reported
\* done = True, and always ends: until it has ended it can always go on,
\* and each thing it does lowers a bound that cannot fall below zero.
C5_BoundedRollout ==
    /\ [](pcR # "idle" =>
            /\ nResets = IF pcR = "called" THEN 0 ELSE 1
            /\ nSteps <= maxNumIterations
            /\ RolloutVariant >= 0
            /\ RolloutOver \/ ENABLED NextRollout)
    /\ [][gameOver => nSteps' = nSteps]_vars
    /\ [][RolloutVariant' < RolloutVariant]_vars

\* A rollout ended on done = True before the step bound was used up.
C5_EndedEarly ==
    /\ pcR = "done" /\ gameOver
    /\ 0 < nSteps /\ nSteps < maxNumIterations

\* C6 as stated: the weights handed to the sampler in a step of the rollout
\* are all non-negative and sum to 1, and no error arises from the row.
C6_WeightsAreDistribution ==
    (pcR \in {"loop", "done", "ValueError"} /\ (it > 0 \/ pcR = "ValueError")) =>
        /\ pcR # "ValueError"
        /\ myweights.den > 0
        /\ \A a \in Actions : myweights.num[a] >= 0
        /\ RowSum(myweights) = myweights.den

\* C7 as stated: every run of execute_q_learning begins with a zeroed table
\* and with the environment as a first run finds it, so that nothing a run
\* reads was left by an earlier run.
C7_RunsIndependent ==
    (pcQL = "outer" /\ i = 0) =>
        /\ stateActionValues = ZeroQ
        /\ envState = ResetState

TablesMatch ==
    /\ shapeP = <<selfS, selfA, selfS>>
    /\ shapeR = <<selfS, selfA, selfS>>

\* C8 as stated: an object is constructed only from discrete spaces and
\* tables whose sizes match S and A; otherwise construction fails.
C8_ConsistentShapes ==
    pcC = "constructed" =>
        /\ action_space.discrete /\ observation_space.discrete
        /\ TablesMatch

\* C8, amended: construction fails exactly when the action or the
\* observation space is not discrete; an object is constructed with S and A
\* read off the two spaces, whatever the sizes of the tables.
C8_DiscreteSpacesOnly ==
    /\ pcC = "constructed" =>
          /\ action_space.discrete /\ observation_space.discrete
          /\ selfS = observation_space.n /\ selfA = action_space.n
          /\ nResets = 1 /\ envState = ResetState
    /\ pcC = "AssertionError" =>
          /\ ~(action_space.discrete /\ observation_space.discrete)
          /\ nResets = 0

\* An object was constructed over tables whose sizes do not match S and A.
C8_ConstructedWithMismatch ==
    /\ pcC = "constructed"
    /\ action_space.discrete /\ observation_space.discrete
    /\ ~TablesMatch

\* two weights are the same number
SameWeight(row1, a, row2) ==
    /\ IsNaN(row1) = IsNaN(row2)
    /\ ~IsNaN(row1) => row1.num[a] * row2.den = row2.num[a] * row1.den

\* C9 as stated: when the rollout has returned every entry of the caller's
\* policy matrix equals its value before the call (said of the rollouts that
\* leave a number in every entry: no row was turned into NaN).
C9_PolicyUnchanged ==
    (pcR = "done" /\ \A s \in States : ~IsNaN(policy[s])) =>
        \A s \in States, a \in Actions :
            SameWeight(policy[s], a, callerPolicy[s])

====
